---- MODULE Spec2Model ----
(***************************************************************************)
(* Logical (non-backtracking) Sudoku solver of alliquinn/PythonSudoku.     *)
(*                                                                         *)
(* The repository holds two runnable solvers that share their data layout: *)
(*   src/src/sudoku_final.py  naked singles + generic disjoint subsets     *)
(*   src/src/sudoku_old.py    naked singles, hidden singles, claiming,     *)
(*                            disjoint subsets per row / column / sub-grid *)
(* The variable prog says which of the two scripts is running.  A state of *)
(* the model is the content of the module-level globals plus the position  *)
(* of the driver loop (round, pc).  Every call the driver makes is one     *)
(* step.                                                                   *)
(*                                                                         *)
(* Iteration over a Python set (the unsolved values of a unit in the       *)
(* hidden-single functions, d_subsets in the disjoint-subset functions)    *)
(* has no order fixed by the language: the model lets the step choose any  *)
(* order.                                                                  *)
(***************************************************************************)
EXTENDS Integers, Sequences, FiniteSets, TLC

\* ------------------------------------------------------------------------
\* Puzzle dimensions (sudoku_final.py:26-28; sudoku_old.py hard-codes 9, 3)
\* ------------------------------------------------------------------------
grid_l == 9
sub_l == 3
sub_h == 3

\* range(grid_l)
R == 0..(grid_l - 1)

\* full_set = {y for y in range(1, grid_l + 1)}
full_set == 1..grid_l

\* for x in range(100): the round cap of main() / solve()
MaxRounds == 100

VARIABLES
    prog,        \* "final" or "old": which script is running
    raw,         \* the puzzle file as read by init(): raw[x][y], 0 = blank
    m_grid,      \* m_grid[x][y] / main_grid[x][y]
    c_grid,      \* c_grid[x][y] / candidates_grid[x][y]
    row_set,     \* row_set[y]
    col_set,     \* col_set[x]
    s_grid_set,  \* s_grid_set[x // sub_l][y // sub_h] / sub_grid_set
    state,       \* "Start", "Running", "Solved", "Stalled"
    round,       \* rounds of the driver loop begun so far
    pc,          \* position in the current round's schedule of calls
    before       \* the globals as they were when the last call began

vars == <<prog, raw, m_grid, c_grid, row_set, col_set, s_grid_set, state, round, pc, before>>

\* The globals as one value, so that the functions can be written as operators.
Board(m, c, rs, cs, sg) ==
    [m_grid |-> m, c_grid |-> c, row_set |-> rs, col_set |-> cs, s_grid_set |-> sg]

board == Board(m_grid, c_grid, row_set, col_set, s_grid_set)

\* ------------------------------------------------------------------------
\* Unit accessors
\* ------------------------------------------------------------------------
\* range(a, b) as a set
Range(r) == r[1]..(r[2] - 1)

\* the squares visited by "for y in range(y_range) for x in range(x_range)"
Squares(x_range, y_range) == {<<x, y>> : x \in Range(x_range), y \in Range(y_range)}

SubX(s_grid_x) == <<s_grid_x * sub_l, s_grid_x * sub_l + sub_l>>
SubY(s_grid_y) == <<s_grid_y * sub_h, s_grid_y * sub_h + sub_h>>

\* ------------------------------------------------------------------------
\* init()
\* ------------------------------------------------------------------------
init(g) ==
    LET rs == [y \in R |-> {g[x][y] : x \in R} \ {0}]
        cs == [x \in R |-> {g[x][y] : y \in R} \ {0}]
        sg == [i \in 0..(sub_h - 1) |-> [j \in 0..(sub_l - 1) |->
                 {g[x][y] : x \in {u \in R : u \div sub_l = i},
                            y \in {u \in R : u \div sub_h = j}} \ {0}]]
        c  == [x \in R |-> [y \in R |->
                 IF g[x][y] = 0
                 THEN full_set \ (rs[y] \cup cs[x] \cup sg[x \div sub_l][y \div sub_h])
                 ELSE {}]]
    IN  Board(g, c, rs, cs, sg)

\* ------------------------------------------------------------------------
\* Placing a value
\* ------------------------------------------------------------------------
\* RemoveSolution with the loop over the column left out
RemoveSolutionNoColumn(c, solution, x, y) ==
    [c_x \in R |-> [c_y \in R |->
        IF c_x = x /\ c_y = y THEN {}
        ELSE IF \/ (c_x \div sub_l = x \div sub_l /\ c_y \div sub_h = y \div sub_h)
                \/ c_y = y
             THEN c[c_x][c_y] \ {solution}
             ELSE c[c_x][c_y]]]

\* "Remove solution val from appropriate squares in candidate grid": the
\* square itself is cleared, the value is discarded from its sub-grid, its
\* column and its row.
RemoveSolution(c, solution, x, y) ==
    [c_x \in R |-> [c_y \in R |->
        IF c_x = x /\ c_y = y THEN {}
        ELSE IF \/ (c_x \div sub_l = x \div sub_l /\ c_y \div sub_h = y \div sub_h)
                \/ c_x = x
                \/ c_y = y
             THEN c[c_x][c_y] \ {solution}
             ELSE c[c_x][c_y]]]

\* sudoku_final.py write_solution, body of the "if": the placed-value sets
\* are not touched.
fill(b, solution, x, y) ==
    [b EXCEPT !.m_grid[x][y] = solution,
              !.c_grid = RemoveSolution(b.c_grid, solution, x, y)]

\* pencil_in that clears the square and leaves the candidates of the other
\* squares alone
pencil_in_OwnSquareOnly(b, solution, x, y) ==
    [b EXCEPT !.m_grid[x][y] = solution,
              !.row_set[y] = @ \cup {solution},
              !.col_set[x] = @ \cup {solution},
              !.s_grid_set[x \div sub_l][y \div sub_h] = @ \cup {solution},
              !.c_grid[x][y] = {}]

\* sudoku_old.py pencil_in
pencil_in(b, solution, x, y) ==
    [b EXCEPT !.m_grid[x][y] = solution,
              !.row_set[y] = @ \cup {solution},
              !.col_set[x] = @ \cup {solution},
              !.s_grid_set[x \div sub_l][y \div sub_h] = @ \cup {solution},
              !.c_grid = RemoveSolution(b.c_grid, solution, x, y)]

\* ------------------------------------------------------------------------
\* Naked single: write_solution(y) / single_candidate_square(y)
\* ------------------------------------------------------------------------
RECURSIVE NakedLoop(_, _, _, _)
NakedLoop(b, y, x, old) ==
    IF x = grid_l THEN b
    ELSE IF Cardinality(b.c_grid[x][y]) = 1
         THEN LET solution == CHOOSE v \in b.c_grid[x][y] : TRUE
              IN  NakedLoop(IF old THEN pencil_in(b, solution, x, y)
                                   ELSE fill(b, solution, x, y), y, x + 1, old)
         ELSE NakedLoop(b, y, x + 1, old)

write_solution(b, y) == NakedLoop(b, y, 0, FALSE)

single_candidate_square(b, y) == NakedLoop(b, y, 0, TRUE)

\* ------------------------------------------------------------------------
\* Orders in which a Python set may be iterated
\* ------------------------------------------------------------------------
RECURSIVE SetToSeq(_)
SetToSeq(S) ==
    IF S = {} THEN <<>>
    ELSE LET e == CHOOSE e \in S : TRUE IN <<e>> \o SetToSeq(S \ {e})

Orders(S) ==
    LET base == SetToSeq(S)
    IN  {[k \in 1..Len(base) |-> p[base[k]]] : p \in Permutations(S)}

\* ------------------------------------------------------------------------
\* Hidden single: single_sq_candidate_row / _col / _subgrid
\* ------------------------------------------------------------------------
\* The body shared by the three functions: for each candidate in the given
\* order count the squares of the unit that hold it; pencil it in if the
\* count is 1.
RECURSIVE HiddenLoop(_, _, _)
HiddenLoop(b, order, sq) ==
    IF order = <<>> THEN b
    ELSE LET candidate == Head(order)
             holders == {s \in sq : candidate \in b.c_grid[s[1]][s[2]]}
         IN  IF Cardinality(holders) = 1
             THEN LET prev == CHOOSE s \in holders : TRUE
                  IN  HiddenLoop(pencil_in(b, candidate, prev[1], prev[2]), Tail(order), sq)
             ELSE HiddenLoop(b, Tail(order), sq)

\* Each function yields the set of boards it can leave, one per order in
\* which "for candidate in full_set.difference(...)" visits the values.
single_sq_candidate_row(b, y) ==
    {HiddenLoop(b, order, Squares(<<0, grid_l>>, <<y, y + 1>>)) :
        order \in Orders(full_set \ b.row_set[y])}

single_sq_candidate_col(b, x) ==
    {HiddenLoop(b, order, Squares(<<x, x + 1>>, <<0, grid_l>>)) :
        order \in Orders(full_set \ b.col_set[x])}

single_sq_candidate_subgrid(b, sub_grid_x, sub_grid_y) ==
    {HiddenLoop(b, order, Squares(SubX(sub_grid_x), SubY(sub_grid_y))) :
        order \in Orders(full_set \ b.s_grid_set[sub_grid_x][sub_grid_y])}

\* ------------------------------------------------------------------------
\* Claiming: number_claiming_row / number_claiming_col
\* ------------------------------------------------------------------------
\* number_claiming_row that claims every candidate of a sub-row, without
\* taking away those of the other sub-rows
number_claiming_row_NoDifference(b, sub_grid_x, sub_grid_y) ==
    LET c == b.c_grid
        subrow_sets == [r \in 0..(sub_h - 1) |->
            UNION {c[x][sub_grid_y * sub_h + r] : x \in Range(SubX(sub_grid_x))}]
    IN  [b EXCEPT !.c_grid = [x \in R |-> [y \in R |->
            IF y \div sub_h = sub_grid_y /\ x \div sub_l # sub_grid_x
            THEN c[x][y] \ subrow_sets[y % sub_h]
            ELSE c[x][y]]]]

number_claiming_row(b, sub_grid_x, sub_grid_y) ==
    LET c == b.c_grid
        subrow_sets == [r \in 0..(sub_h - 1) |->
            UNION {c[x][sub_grid_y * sub_h + r] : x \in Range(SubX(sub_grid_x))}]
        claimed == [r \in 0..(sub_h - 1) |->
            subrow_sets[r] \ UNION {subrow_sets[o] : o \in (0..(sub_h - 1)) \ {r}}]
    IN  [b EXCEPT !.c_grid = [x \in R |-> [y \in R |->
            IF y \div sub_h = sub_grid_y /\ x \div sub_l # sub_grid_x
            THEN c[x][y] \ claimed[y % sub_h]
            ELSE c[x][y]]]]

number_claiming_col(b, sub_grid_x, sub_grid_y) ==
    LET c == b.c_grid
        subcol_sets == [r \in 0..(sub_l - 1) |->
            UNION {c[sub_grid_x * sub_l + r][y] : y \in Range(SubY(sub_grid_y))}]
        claimed == [r \in 0..(sub_l - 1) |->
            subcol_sets[r] \ UNION {subcol_sets[o] : o \in (0..(sub_l - 1)) \ {r}}]
    IN  [b EXCEPT !.c_grid = [x \in R |-> [y \in R |->
            IF x \div sub_l = sub_grid_x /\ y \div sub_h # sub_grid_y
            THEN c[x][y] \ claimed[x % sub_l]
            ELSE c[x][y]]]]

\* ------------------------------------------------------------------------
\* Disjoint subsets
\* ------------------------------------------------------------------------
\* "Get all candidate sets in row/col/sg with cardinality n or less": the
\* list holds one entry per square, so it is kept as the set of squares.
SmallSquares(c, sq, n) ==
    {s \in sq : 1 < Cardinality(c[s[1]][s[2]]) /\ Cardinality(c[s[1]][s[2]]) <= n}

\* itertools.combinations(sets, n)
Combinations(S, n) == {T \in SUBSET S : Cardinality(T) = n}

\* get_disjoint_subsets(sets, n) / the d_subsets loop of disjoint_subsets
get_disjoint_subsets(c, sq, n) ==
    LET superset(T) == UNION {c[s[1]][s[2]] : s \in T}
    IN  {superset(T) : T \in {U \in Combinations(SmallSquares(c, sq, n), n) :
                                  Cardinality(superset(U)) = n}}

\* RemoveSubset with the operands of the difference exchanged
RemoveSubsetSwapped(c, sq, d) ==
    [x \in R |-> [y \in R |->
        IF <<x, y>> \in sq /\ ~(c[x][y] \subseteq d)
        THEN d \ c[x][y]
        ELSE c[x][y]]]

\* RemoveSubset without the issubset test
RemoveSubsetUnguarded(c, sq, d) ==
    [x \in R |-> [y \in R |->
        IF <<x, y>> \in sq
        THEN c[x][y] \ d
        ELSE c[x][y]]]

\* one pass of "for d in d_subsets" over the squares of the unit
RemoveSubset(c, sq, d) ==
    [x \in R |-> [y \in R |->
        IF <<x, y>> \in sq /\ ~(c[x][y] \subseteq d)
        THEN c[x][y] \ d
        ELSE c[x][y]]]

RECURSIVE RemoveLoop(_, _, _)
RemoveLoop(c, sq, order) ==
    IF order = <<>> THEN c
    ELSE RemoveLoop(RemoveSubset(c, sq, Head(order)), sq, Tail(order))

\* The boards a call can leave on the squares sq, one per order in which
\* "for d in d_subsets" visits the subsets found.
DisjointOn(b, sq, n) ==
    {[b EXCEPT !.c_grid = RemoveLoop(b.c_grid, sq, order)] :
        order \in Orders(get_disjoint_subsets(b.c_grid, sq, n))}

\* sudoku_final.py disjoint_subsets(x_range, y_range, n)
disjoint_subsets(b, x_range, y_range, n) == DisjointOn(b, Squares(x_range, y_range), n)

\* sudoku_old.py
disjoint_subsets_row(b, y, n) == DisjointOn(b, Squares(<<0, grid_l>>, <<y, y + 1>>), n)

disjoint_subsets_col(b, x, n) == DisjointOn(b, Squares(<<x, x + 1>>, <<0, grid_l>>), n)

disjoint_subsets_subgrid(b, sub_grid_x, sub_grid_y, n) ==
    DisjointOn(b, Squares(SubX(sub_grid_x), SubY(sub_grid_y)), n)

\* ------------------------------------------------------------------------
\* is_solved()
\* ------------------------------------------------------------------------
\* sudoku_final.py: no square has a candidate left
is_solved(b) == \A x \in R : \A y \in R : Cardinality(b.c_grid[x][y]) = 0

\* sudoku_old.py: every row_set holds grid_l values
old_is_solved(b) == \A y \in R : Cardinality(b.row_set[y]) = grid_l

\* ------------------------------------------------------------------------
\* The driver: main() of sudoku_final.py, solve() of sudoku_old.py
\* ------------------------------------------------------------------------
Call(f, a) == [f |-> f, a |-> a]

\* for sub_grid_y in range(..): for sub_grid_x in range(..): func(x, y)
SubgridArgs(k) == <<(k - 1) % sub_h, (k - 1) \div sub_h>>

\* iterator(disjoint_subsets, n): row sq and column sq in turn, then the
\* sub-grids
iterator(n) ==
    [k \in 1..(2 * grid_l) |->
        IF k % 2 = 1
        THEN Call("disjoint_subsets", <<<<0, grid_l>>, <<(k - 1) \div 2, (k - 1) \div 2 + 1>>, n>>)
        ELSE Call("disjoint_subsets", <<<<(k - 2) \div 2, (k - 2) \div 2 + 1>>, <<0, grid_l>>, n>>)]
    \o
    [k \in 1..grid_l |->
        Call("disjoint_subsets", <<SubX(SubgridArgs(k)[1]), SubY(SubgridArgs(k)[2]), n>>)]

iter_over_line(f) == [k \in 1..grid_l |-> Call(f, <<k - 1>>)]

iter_over_subgrids(f) == [k \in 1..grid_l |-> Call(f, SubgridArgs(k))]

iter_over_line_n(f, n) == [k \in 1..grid_l |-> Call(f, <<k - 1, n>>)]

iter_over_subgrids_n(f, n) == [k \in 1..grid_l |-> Call(f, SubgridArgs(k) \o <<n>>)]

\* the calls of one round of main()
main ==
    [k \in 1..grid_l |-> Call("write_solution", <<k - 1>>)]
    \o iterator(2) \o iterator(3) \o iterator(4)

old_disjoint(n) ==
    iter_over_line_n("disjoint_subsets_row", n)
    \o iter_over_line_n("disjoint_subsets_col", n)
    \o iter_over_subgrids_n("disjoint_subsets_subgrid", n)

\* the calls of one round of solve()
solve ==
    iter_over_line("single_candidate_square")
    \o iter_over_line("single_sq_candidate_row")
    \o iter_over_line("single_sq_candidate_col")
    \o iter_over_subgrids("single_sq_candidate_subgrid")
    \o iter_over_subgrids("number_claiming_row")
    \o iter_over_subgrids("number_claiming_col")
    \o old_disjoint(2) \o old_disjoint(3) \o old_disjoint(4)

Schedule == IF prog = "final" THEN main ELSE solve

\* the call the driver is about to make
AtCall(f) == state = "Running" /\ pc <= Len(Schedule) /\ Schedule[pc].f = f

arg == Schedule[pc].a

\* the squares of the unit the pending call works on
UnitOf(call) ==
    CASE call.f \in {"write_solution", "single_candidate_square",
                     "single_sq_candidate_row", "disjoint_subsets_row"}
            -> Squares(<<0, grid_l>>, <<call.a[1], call.a[1] + 1>>)
      [] call.f \in {"single_sq_candidate_col", "disjoint_subsets_col"}
            -> Squares(<<call.a[1], call.a[1] + 1>>, <<0, grid_l>>)
      [] call.f = "disjoint_subsets"
            -> Squares(call.a[1], call.a[2])
      [] OTHER -> Squares(SubX(call.a[1]), SubY(call.a[2]))

\* the board after the call
Returns(b) ==
    /\ m_grid' = b.m_grid
    /\ c_grid' = b.c_grid
    /\ row_set' = b.row_set
    /\ col_set' = b.col_set
    /\ s_grid_set' = b.s_grid_set
    /\ pc' = pc + 1
    /\ before' = board
    /\ UNCHANGED <<prog, raw, state, round>>

\* ------------------------------------------------------------------------
\* Puzzles
\* ------------------------------------------------------------------------
\* A puzzle file: N lines of N digits; init() reads line y, character x
\* into m_grid[x][y].
Grid(rows) == [x \in R |-> [y \in R |-> rows[y + 1][x + 1]]]

\* the same file with the given squares left blank
Blank(g, cells) == [x \in R |-> [y \in R |-> IF <<x, y>> \in cells THEN 0 ELSE g[x][y]]]

\* the same file with square (x, y) holding v
Alter(g, x, y, v) == [g EXCEPT ![x][y] = v]

\* a complete valid grid: rows 123456789, 456789123, 789123456, 234567891, ...
Sol == [x \in R |-> [y \in R |-> ((3 * (y % 3) + (y \div 3) + x) % 9) + 1]]

\* the squares of Sol that hold one of the given values
Holding(vals) == {s \in R \X R : Sol[s[1]][s[2]] \in vals}

\* Puzzles that both scripts solve: the squares holding 1..4 are blank but
\* for seven clues, and any of the first MaxExtra optional clues is given.
MaxExtra == 4

ExtraClues == <<<<0, 0>>, <<2, 5>>, <<4, 5>>, <<1, 3>>, <<6, 1>>, <<8, 6>>>>

BaseClues == {<<0, 6>>, <<3, 0>>, <<4, 2>>, <<5, 7>>, <<6, 7>>, <<7, 6>>, <<8, 3>>}

Solvable ==
    {Blank(Sol, Holding(1..4) \ (BaseClues \cup {ExtraClues[i] : i \in I})) :
        I \in SUBSET (1..MaxExtra)}

\* Valid puzzles with several completions, which neither script finishes.
Ambiguous ==
    { Blank(Sol, Holding(1..4) \ {<<0, 1>>, <<1, 3>>, <<3, 0>>, <<4, 5>>, <<4, 7>>, <<4, 8>>,
                                  <<6, 4>>}),
      Blank(Sol, Holding(1..5) \ {<<0, 0>>, <<0, 4>>, <<1, 0>>, <<2, 6>>, <<2, 8>>, <<3, 0>>,
                                  <<3, 5>>, <<4, 8>>, <<6, 1>>, <<6, 5>>, <<6, 7>>, <<7, 4>>}) }

\* Grids without a duplicate clue that have no completion.
DeadSquares == Alter(Blank(Sol, {<<0, 0>>, <<1, 8>>}), 1, 0, 1)

TwoHidden == Alter(Blank(Sol, {<<0, 0>>, <<1, 0>>, <<3, 5>>, <<0, 3>>}), 1, 5, 2)

TwoPairs == Grid(<<
        <<0, 2, 3, 0, 5, 6, 7, 8, 0>>,
        <<0, 5, 6, 0, 8, 9, 0, 2, 3>>,
        <<0, 8, 0, 0, 2, 3, 4, 5, 6>>,
        <<2, 0, 0, 5, 6, 0, 8, 0, 0>>,
        <<4, 6, 0, 8, 0, 0, 2, 0, 0>>,
        <<8, 9, 0, 2, 0, 4, 5, 6, 0>>,
        <<3, 4, 5, 6, 0, 8, 9, 0, 2>>,
        <<6, 7, 8, 0, 1, 2, 0, 4, 5>>,
        <<0, 1, 2, 0, 0, 5, 6, 0, 8>>>>)

Unsolvable == {DeadSquares, TwoHidden, TwoPairs}

\* A grid with duplicate clues: Sol with its first two squares exchanged
\* (the rows stay complete, columns 0 and 1 hold a value twice).
Swapped == Alter(Alter(Sol, 0, 0, 2), 1, 0, 1)

Duplicated == {Swapped}

Inputs == {Sol} \cup Solvable \cup Ambiguous \cup Unsolvable \cup Duplicated

\* ------------------------------------------------------------------------
\* Initial state and steps
\* ------------------------------------------------------------------------
\* The globals as the module bodies leave them: no square read, every
\* candidate set and placed-value set empty.
Init ==
    /\ prog \in {"final", "old"}
    /\ raw = [x \in R |-> [y \in R |-> 0]]
    /\ m_grid = [x \in R |-> [y \in R |-> 0]]
    /\ c_grid = [x \in R |-> [y \in R |-> {}]]
    /\ row_set = [y \in R |-> {}]
    /\ col_set = [x \in R |-> {}]
    /\ s_grid_set = [i \in 0..(sub_h - 1) |-> [j \in 0..(sub_l - 1) |-> {}]]
    /\ state = "Start"
    /\ round = 0
    /\ pc = 0
    /\ before = board

\* init(), then the first round begins
LoadPuzzle ==
    /\ state = "Start"
    /\ \E g \in Inputs :
        /\ raw' = g
        /\ m_grid' = init(g).m_grid
        /\ c_grid' = init(g).c_grid
        /\ row_set' = init(g).row_set
        /\ col_set' = init(g).col_set
        /\ s_grid_set' = init(g).s_grid_set
        /\ before' = init(g)
    /\ state' = "Running"
    /\ round' = 1
    /\ pc' = 1
    /\ UNCHANGED prog

WriteSolution ==
    /\ AtCall("write_solution")
    /\ Returns(write_solution(board, arg[1]))

SingleCandidateSquare ==
    /\ AtCall("single_candidate_square")
    /\ Returns(single_candidate_square(board, arg[1]))

SingleSqCandidateRow ==
    /\ AtCall("single_sq_candidate_row")
    /\ \E b \in single_sq_candidate_row(board, arg[1]) : Returns(b)

SingleSqCandidateCol ==
    /\ AtCall("single_sq_candidate_col")
    /\ \E b \in single_sq_candidate_col(board, arg[1]) : Returns(b)

SingleSqCandidateSubgrid ==
    /\ AtCall("single_sq_candidate_subgrid")
    /\ \E b \in single_sq_candidate_subgrid(board, arg[1], arg[2]) : Returns(b)

NumberClaimingRow ==
    /\ AtCall("number_claiming_row")
    /\ Returns(number_claiming_row(board, arg[1], arg[2]))

NumberClaimingCol ==
    /\ AtCall("number_claiming_col")
    /\ Returns(number_claiming_col(board, arg[1], arg[2]))

DisjointSubsets ==
    /\ AtCall("disjoint_subsets")
    /\ \E b \in disjoint_subsets(board, arg[1], arg[2], arg[3]) : Returns(b)

DisjointSubsetsRow ==
    /\ AtCall("disjoint_subsets_row")
    /\ \E b \in disjoint_subsets_row(board, arg[1], arg[2]) : Returns(b)

DisjointSubsetsCol ==
    /\ AtCall("disjoint_subsets_col")
    /\ \E b \in disjoint_subsets_col(board, arg[1], arg[2]) : Returns(b)

DisjointSubsetsSubgrid ==
    /\ AtCall("disjoint_subsets_subgrid")
    /\ \E b \in disjoint_subsets_subgrid(board, arg[1], arg[2], arg[3]) : Returns(b)

\* the is_solved() of the running script
IsSolved == IF prog = "final" THEN is_solved(board) ELSE old_is_solved(board)

AtCheck == state = "Running" /\ pc = Len(Schedule) + 1

\* if is_solved(): print the grid; break
Solved ==
    /\ AtCheck
    /\ IsSolved
    /\ state' = "Solved"
    /\ UNCHANGED <<prog, raw, m_grid, c_grid, row_set, col_set, s_grid_set, round, pc, before>>

\* NextRound with the bound of range(100) off by one
NextRoundOffByOne ==
    /\ AtCheck
    /\ ~IsSolved
    /\ round <= MaxRounds
    /\ round' = round + 1
    /\ pc' = 1
    /\ UNCHANGED <<prog, raw, m_grid, c_grid, row_set, col_set, s_grid_set, state, before>>

\* is_solved() is false and range(100) has a next value
NextRound ==
    /\ AtCheck
    /\ ~IsSolved
    /\ round < MaxRounds
    /\ round' = round + 1
    /\ pc' = 1
    /\ UNCHANGED <<prog, raw, m_grid, c_grid, row_set, col_set, s_grid_set, state, before>>

\* Stalled that leaves the loop at the first round that ends unsolved
StalledAtOnce ==
    /\ AtCheck
    /\ ~IsSolved
    /\ state' = "Stalled"
    /\ UNCHANGED <<prog, raw, m_grid, c_grid, row_set, col_set, s_grid_set, round, pc, before>>

\* is_solved() is false and range(100) is exhausted: the loop ends unsolved
Stalled ==
    /\ AtCheck
    /\ ~IsSolved
    /\ round = MaxRounds
    /\ state' = "Stalled"
    /\ UNCHANGED <<prog, raw, m_grid, c_grid, row_set, col_set, s_grid_set, round, pc, before>>

Next ==
    \/ LoadPuzzle
    \/ WriteSolution
    \/ SingleCandidateSquare
    \/ SingleSqCandidateRow
    \/ SingleSqCandidateCol
    \/ SingleSqCandidateSubgrid
    \/ NumberClaimingRow
    \/ NumberClaimingCol
    \/ DisjointSubsets
    \/ DisjointSubsetsRow
    \/ DisjointSubsetsCol
    \/ DisjointSubsetsSubgrid
    \/ Solved
    \/ NextRound
    \/ Stalled

Spec == Init /\ [][Next]_vars

\* The position of the driver: where it stands in main() / solve().
ctl == <<state, round, pc>>

\* What any step of Next does to the position of the driver: init() starts
\* round 1, a call returns to the statement after it, and the test of
\* is_solved() at the end of a round breaks, starts the next round or leaves
\* the exhausted loop.
Control ==
    \/ /\ state = "Start"
       /\ state' = "Running" /\ round' = 1 /\ pc' = 1
    \/ /\ state = "Running" /\ pc <= Len(Schedule)
       /\ pc' = pc + 1 /\ UNCHANGED <<state, round>>
    \/ /\ AtCheck /\ IsSolved
       /\ state' = "Solved" /\ UNCHANGED <<round, pc>>
    \/ /\ AtCheck /\ ~IsSolved /\ round < MaxRounds
       /\ round' = round + 1 /\ pc' = 1 /\ UNCHANGED state
    \/ /\ AtCheck /\ ~IsSolved /\ round = MaxRounds
       /\ state' = "Stalled" /\ UNCHANGED <<round, pc>>

\* WF: the script is one thread that runs main() / solve() to its end; no
\* call blocks or waits, so the driver moves on whenever it has a next
\* statement.
FairSpec == Spec /\ WF_ctl(Control)

\* ------------------------------------------------------------------------
\* Vocabulary of the properties
\* ------------------------------------------------------------------------
At(f, s) == f[s[1]][s[2]]

AllSquares == R \X R

Rows == {Squares(<<0, grid_l>>, <<y, y + 1>>) : y \in R}

Cols == {Squares(<<x, x + 1>>, <<0, grid_l>>) : x \in R}

Subgrids == {Squares(SubX(i), SubY(j)) : i \in 0..(sub_h - 1), j \in 0..(sub_l - 1)}

AllUnits == Rows \cup Cols \cup Subgrids

\* the other squares of the row, the column and the sub-grid of s
Peers == [s \in AllSquares |-> UNION {u \in AllUnits : s \in u} \ {s}]

\* the values placed in the squares of a set
Placed(m, sq) == {At(m, t) : t \in sq} \ {0}

\* no two squares of a unit hold the same nonzero value
NoDuplicate(g) ==
    \A u \in AllUnits : \A s \in u : \A t \in u :
        (s # t /\ At(g, s) # 0) => At(g, s) # At(g, t)

\* every unit holds each value of 1..N exactly once
Complete(g) == \A u \in AllUnits : {At(g, s) : s \in u} = full_set

Patch(g, changes) ==
    [x \in R |-> [y \in R |->
        IF \E ch \in changes : ch[1] = x /\ ch[2] = y
        THEN (CHOOSE ch \in changes : ch[1] = x /\ ch[2] = y)[3]
        ELSE g[x][y]]]

\* Sol and the other completions of the puzzles of Ambiguous
KnownCompletions ==
    { Sol,
      Patch(Sol, {<<2,3,1>>, <<8,3,4>>, <<5,4,4>>, <<8,4,1>>, <<2,5,4>>, <<5,5,1>>}),
      Patch(Sol, {<<0,0,2>>, <<1,0,1>>, <<0,3,1>>, <<2,3,2>>, <<8,3,4>>, <<5,4,4>>, <<8,4,1>>,
                  <<2,5,4>>, <<5,5,1>>, <<1,8,2>>, <<2,8,1>>}),
      Patch(Sol, {<<0,0,2>>, <<1,0,1>>, <<7,1,3>>, <<8,1,2>>, <<0,3,1>>, <<2,3,2>>, <<8,3,4>>,
                  <<5,4,4>>, <<7,4,1>>, <<8,4,3>>, <<2,5,4>>, <<5,5,1>>, <<7,6,2>>, <<8,6,1>>,
                  <<1,8,2>>, <<2,8,1>>}),
      Patch(Sol, {<<7,1,3>>, <<8,1,2>>, <<2,3,1>>, <<8,3,4>>, <<5,4,4>>, <<7,4,1>>, <<8,4,3>>,
                  <<2,5,4>>, <<5,5,1>>, <<7,6,2>>, <<8,6,1>>}),
      Patch(Sol, {<<4,2,3>>, <<5,2,2>>, <<2,3,1>>, <<8,3,4>>, <<5,4,4>>, <<8,4,1>>, <<2,5,4>>,
                  <<4,5,1>>, <<5,5,3>>, <<4,7,2>>, <<5,7,1>>}) }

\* the complete grids among them that agree with the clues of g
Completions(g) ==
    {S \in KnownCompletions : Complete(S) /\ \A s \in AllSquares : At(g, s) # 0 => At(S, s) = At(g, s)}

\* the two notions tabulated over the puzzles
CleanInputs == {g \in Inputs : NoDuplicate(g)}

CompletionsOf == [g \in Inputs |-> Completions(g)]

Loaded == state # "Start"

\* a call of the current round has returned; before holds the globals as
\* that call found them
Called == Loaded /\ pc > 1

LastCall == Schedule[pc - 1]

Hidden == {"single_sq_candidate_row", "single_sq_candidate_col", "single_sq_candidate_subgrid"}

Disjoint == {"disjoint_subsets", "disjoint_subsets_row", "disjoint_subsets_col",
             "disjoint_subsets_subgrid"}

\* the n of a disjoint-subset call is its last argument
SubsetSize(call) == call.a[Len(call.a)]

\* the choices of n squares with 2..n candidates each whose union has n values
Found(c, sq, n) ==
    {T \in Combinations(SmallSquares(c, sq, n), n) :
        Cardinality(UNION {At(c, s) : s \in T}) = n}

UnionOf(c, T) == UNION {At(c, s) : s \in T}

\* ------------------------------------------------------------------------
\* Properties
\* ------------------------------------------------------------------------

\* C1 - Soundness: when the clues hold no duplicate, then for every complete
\* grid S that agrees with the clues, in every state after init() every
\* placed square holds S's value and every unsolved square still has S's
\* value among its candidates.
C1_Soundness ==
    (Loaded /\ raw \in CleanInputs) =>
        \A S \in CompletionsOf[raw] : \A s \in AllSquares :
            /\ At(m_grid, s) # 0 => At(m_grid, s) = At(S, s)
            /\ At(m_grid, s) = 0 => At(S, s) \in At(c_grid, s)

\* a puzzle with a completion on which a call has just placed a value or
\* removed a candidate, and squares are still open
C1_Witness ==
    /\ Called
    /\ raw \in CleanInputs
    /\ CompletionsOf[raw] # {}
    /\ c_grid # before.c_grid
    /\ \E s \in AllSquares : At(raw, s) = 0 /\ At(m_grid, s) # 0
    /\ \E s \in AllSquares : At(m_grid, s) = 0 /\ Cardinality(At(c_grid, s)) > 1

\* C2 - Unit uniqueness of Solved boards: when the driver ends in Solved,
\* every row, column and sub-grid of the grid holds each value of 1..N
\* exactly once.
C2_SolvedUnitsComplete == state = "Solved" => Complete(m_grid)

\* C3 - Monotonicity: across every single call of a technique each square's
\* candidate set only shrinks, and a square that holds a value keeps it.
C3_Monotone ==
    Called =>
        \A s \in AllSquares :
            /\ At(c_grid, s) \subseteq At(before.c_grid, s)
            /\ At(before.m_grid, s) # 0 => At(m_grid, s) = At(before.m_grid, s)

\* a disjoint-subset call has just removed candidates from a square that
\* keeps others
C3_Witness ==
    /\ Called
    /\ LastCall.f \in Disjoint
    /\ \E s \in AllSquares :
        /\ At(c_grid, s) # {}
        /\ At(c_grid, s) # At(before.c_grid, s)

\* C4 - Board invariant: after init(), a square that holds a value has no
\* candidates, and no candidate of an unsolved square is the value placed in
\* another square of its row, column or sub-grid.
C4_BoardInvariant ==
    Loaded =>
        \A s \in AllSquares :
            /\ At(m_grid, s) # 0 => At(c_grid, s) = {}
            /\ At(m_grid, s) = 0 => At(c_grid, s) \cap Placed(m_grid, Peers[s]) = {}

\* a technique has just placed a value in a blank square while an unsolved
\* peer of that square still has candidates
C4_Witness ==
    /\ Called
    /\ \E s \in AllSquares :
        /\ At(before.m_grid, s) = 0
        /\ At(m_grid, s) # 0
        /\ \E t \in Peers[s] : At(m_grid, t) = 0 /\ At(c_grid, t) # {}

AllPlaced(b) == \A s \in AllSquares : At(b.m_grid, s) # 0

AllEmpty(b) == \A s \in AllSquares : At(b.c_grid, s) = {}

\* C5 - in every state after init(), is_solved() is true iff every square
\* holds a value, and every square holds a value iff every candidate set is
\* empty.
C5_IsSolvedIffPlaced ==
    Loaded =>
        /\ IsSolved <=> AllPlaced(board)
        /\ AllPlaced(board) <=> AllEmpty(board)

\* C6 - Driver termination and outcome: the driver runs at most 100 rounds
\* and ends in Solved or in Stalled and stays there; at the end of a round
\* it enters Solved if is_solved() is true, begins the next round if it is
\* false and fewer than 100 rounds have run, and enters Stalled if it is
\* false at the end of round 100; Solved and Stalled are entered in no
\* other way.
C6_DriverOutcome ==
    /\ [](round <= MaxRounds)
    /\ <>[](state \in {"Solved", "Stalled"})
    /\ [][ /\ (AtCheck /\ IsSolved) => state' = "Solved"
           /\ (AtCheck /\ ~IsSolved /\ round < MaxRounds) =>
                  (state' = "Running" /\ round' = round + 1 /\ pc' = 1)
           /\ (AtCheck /\ ~IsSolved /\ round = MaxRounds) => state' = "Stalled"
           /\ (state' = "Solved" /\ state # "Solved") => (AtCheck /\ IsSolved)
           /\ (state' = "Stalled" /\ state # "Stalled") =>
                  (AtCheck /\ ~IsSolved /\ round = MaxRounds)
           /\ (Loaded /\ round' # round) => (AtCheck /\ ~IsSolved)
           /\ state \in {"Solved", "Stalled"} => UNCHANGED vars ]_vars

\* the driver has stopped: Solved after more than one round, or Stalled
\* after the last
C6_Witness ==
    \/ state = "Solved" /\ round > 1
    \/ state = "Stalled" /\ round = MaxRounds

\* C7 - Initialization rejects duplicate clues: for a grid with two equal
\* nonzero values in a row, column or sub-grid, init() ends in
\* MalformedInputError, computes no candidate set and no round runs.
C7_RejectsDuplicates ==
    (Loaded /\ ~NoDuplicate(raw)) =>
        /\ state = "MalformedInputError"
        /\ round = 0
        /\ AllEmpty(board)

Holders(c, sq, v) == {s \in sq : v \in At(c, s)}

\* the values not placed in the unit that are a candidate of one square only
Singles(b, sq) ==
    {v \in full_set \ Placed(b.m_grid, sq) : Cardinality(Holders(b.c_grid, sq, v)) = 1}

PendingOutcomes == DisjointOn(board, UnitOf(Schedule[pc]), SubsetSize(Schedule[pc]))

\* C10 - Order independence of disjoint-subset elimination: whatever the
\* order in which one call applies the subsets it found, the candidate sets
\* after the call are the same.
C10_OrderIndependent ==
    (state = "Running" /\ pc <= Len(Schedule) /\ Schedule[pc].f \in Disjoint) =>
        Cardinality(PendingOutcomes) = 1

\* the boards a call of the round can leave when it is made on board b
ApplyCall(b, call) ==
    CASE call.f = "write_solution" -> {write_solution(b, call.a[1])}
      [] call.f = "single_candidate_square" -> {single_candidate_square(b, call.a[1])}
      [] call.f = "single_sq_candidate_row" -> single_sq_candidate_row(b, call.a[1])
      [] call.f = "single_sq_candidate_col" -> single_sq_candidate_col(b, call.a[1])
      [] call.f = "single_sq_candidate_subgrid" ->
            single_sq_candidate_subgrid(b, call.a[1], call.a[2])
      [] call.f = "number_claiming_row" -> {number_claiming_row(b, call.a[1], call.a[2])}
      [] call.f = "number_claiming_col" -> {number_claiming_col(b, call.a[1], call.a[2])}
      [] call.f = "disjoint_subsets" -> disjoint_subsets(b, call.a[1], call.a[2], call.a[3])
      [] call.f = "disjoint_subsets_row" -> disjoint_subsets_row(b, call.a[1], call.a[2])
      [] call.f = "disjoint_subsets_col" -> disjoint_subsets_col(b, call.a[1], call.a[2])
      [] call.f = "disjoint_subsets_subgrid" ->
            disjoint_subsets_subgrid(b, call.a[1], call.a[2], call.a[3])

\* the boards left by the calls lo..hi of a round made in turn, from any
\* board of B: the calls lo..mid are made first, and the calls after them
\* start from the boards those have left
RECURSIVE RunCalls(_, _, _, _)
RunCalls(B, calls, lo, hi) ==
    IF lo > hi THEN B
    ELSE IF lo = hi THEN UNION {ApplyCall(b, calls[lo]) : b \in B}
    ELSE LET mid == (lo + hi) \div 2
         IN  UNION {RunCalls(left, calls, mid + 1, hi) :
                        left \in {RunCalls(B, calls, lo, mid)}}

\* the boards one more pass through the body of the loop can leave
OneMoreRound(b) == RunCalls({b}, Schedule, 1, Len(Schedule))

\* C11 - Stalled means fixed point: when the driver has ended in Stalled,
\* one more full round of all techniques, whatever the order in which sets
\* are iterated, changes no value of the grid and no candidate set.
C11_StalledFixedPoint ==
    state = "Stalled" =>
        \A nb \in OneMoreRound(board) :
            /\ nb.m_grid = m_grid
            /\ nb.c_grid = c_grid

\* the driver has ended in Stalled on a grid where the techniques placed
\* values and where squares with several candidates are left to work on
C11_Witness ==
    /\ state = "Stalled"
    /\ round = MaxRounds
    /\ m_grid # raw
    /\ \E s \in AllSquares : Cardinality(At(c_grid, s)) > 1

====
